---- MODULE Spec2Model ----
(***************************************************************************)
(* Model of the Debug component (views/Status/components/Debug/Debug.js): *)
(* a React component that renders the node's log panel from the props     *)
(* statusDebug and forwards clicks to props.actions.                      *)
(*                                                                         *)
(* The component's props are the variable statusDebug, the element tree   *)
(* of its last render pass is the variable tree, and the invocations      *)
(* received by props.actions are recorded, in order, in calls.            *)
(***************************************************************************)
EXTENDS Integers, Sequences, FiniteSets

\* ------------------------------------------------------------------ bounds
MaxLogs == 2        \* longest logs array delivered by the store
MaxCalls == 3       \* user activations explored
MaxRenders == 3     \* render passes explored (the mount included)

\* -------------------------------------------------------------- JS values
\* A JS value that may be a string or null: { t: type tag, v: string payload }.
Str(s) == [t |-> "string", v |-> s]
Null == [t |-> "null", v |-> ""]

\* ToBoolean of the values above: null and the empty string are falsy.
ToBoolean(x) == x.t = "string" /\ x.v # ""

\* a || b
Or(a, b) == IF ToBoolean(a) THEN a ELSE b

\* ------------------------------------------------------------------ inputs
LogLines == {"a", "b"}
LevelValues == {Str(""), Str("INFO,ERROR"), Null}
Events == {"mouse", "keyboard"}

RECURSIVE SeqsUpTo(_, _)
SeqsUpTo(S, n) ==
  IF n = 0 THEN {<<>>}
  ELSE LET shorter == SeqsUpTo(S, n - 1)
       IN shorter \cup {Append(s, x) : s \in {q \in shorter : Len(q) = n - 1}, x \in S}

\* propTypes.statusDebug: { levels, logging, logs }
StatusDebug ==
  [levels : LevelValues, logging : BOOLEAN, logs : SeqsUpTo(LogLines, MaxLogs)]

\* ------------------------------------------------------------------- state
VARIABLES
  statusDebug,   \* this.props.statusDebug, the snapshot owned by the store
  tree,          \* the element tree returned by the last render()
  calls,         \* invocations received by this.props.actions, in order
  clicks,        \* user activations so far, per control
  renders,       \* render passes so far
  delivered,     \* snapshots delivered by the store so far
  callsAtProps   \* Len(calls) when the current snapshot was delivered

vars == <<statusDebug, tree, calls, clicks, renders, delivered, callsAtProps>>

\* One invocation of a member of props.actions.
Call(fn, args) == [fn |-> fn, args |-> args]

\* ------------------------------------------------------------------ render
\* Variant of renderLogs that loses the newest line of a longer list.
renderLogsDropLast(props) ==
  [idx \in 1..(IF Len(props.logs) > 1 THEN Len(props.logs) - 1 ELSE Len(props.logs)) |->
     [type |-> "pre", key |-> idx - 1, children |-> props.logs[idx]]]

\* renderLogs: one <pre> per entry of logs, keyed by its 0-based index.
renderLogs(props) ==
  [idx \in 1..Len(props.logs) |->
     [type |-> "pre", key |-> idx - 1, children |-> props.logs[idx]]]

\* Variant of toggleButton with the two glyphs exchanged.
toggleButtonSwapped(props) == IF props.logging THEN "AvPlay" ELSE "AvPause"

\* const toggleButton = logging ? <AvPause /> : <AvPlay />
toggleButton(props) == IF props.logging THEN "AvPause" ELSE "AvPlay"

\* Variant of renderActions that hides the replay glyph while logs is empty.
renderActionsReplayIfLogs(props) ==
  << [onClick |-> "toggle", children |-> toggleButton(props)],
     [onClick |-> "clear",
      children |-> IF props.logs = <<>> THEN "none" ELSE "AvReplay"] >>

\* renderActions: the two anchors, each with its handler and its glyph.
renderActions(props) ==
  << [onClick |-> "toggle", children |-> toggleButton(props)],
     [onClick |-> "clear", children |-> "AvReplay"] >>

\* Variant of subheader without the '-' fallback.
subheaderNoFallback(props) == props.levels

\* <h2>{ levels || '-' }</h2>
subheader(props) == Or(props.levels, Str("-"))

\* render
render(props) ==
  [title |-> "Node Logs",
   actions |-> renderActions(props),
   subheader |-> subheader(props),
   logs |-> renderLogs(props)]

\* ------------------------------------------------------------------- steps
Init ==
  /\ statusDebug \in StatusDebug
  /\ tree = render(statusDebug)
  /\ calls = <<>>
  /\ clicks = [toggle |-> 0, clear |-> 0]
  /\ renders = 1
  /\ delivered = 1
  /\ callsAtProps = 0

\* Variant of receiveProps whose render pass invokes the toggle handler
\* (onClick={ this.toggle() } instead of onClick={ this.toggle }).
receivePropsInvokesHandler ==
  /\ renders < MaxRenders
  /\ \E next \in StatusDebug :
       /\ statusDebug' = next
       /\ tree' = render(next)
       /\ calls' = Append(calls, Call("updateDevLogging", <<~next.logging>>))
  /\ renders' = renders + 1
  /\ delivered' = delivered + 1
  /\ callsAtProps' = Len(calls)
  /\ UNCHANGED clicks

\* The store delivers a new snapshot; React re-renders with the new props.
receiveProps ==
  /\ renders < MaxRenders
  /\ \E next \in StatusDebug :
       /\ statusDebug' = next
       /\ tree' = render(next)
  /\ renders' = renders + 1
  /\ delivered' = delivered + 1
  /\ callsAtProps' = Len(calls)
  /\ UNCHANGED <<calls, clicks>>

\* The parent re-renders without new data: render() runs on the same props.
forceUpdate ==
  /\ renders < MaxRenders
  /\ tree' = render(statusDebug)
  /\ renders' = renders + 1
  /\ UNCHANGED <<statusDebug, calls, clicks, delivered, callsAtProps>>

\* Variant of toggle that forwards the flag without negating it.
toggleNoNegation ==
  /\ clicks.toggle + clicks.clear < MaxCalls
  /\ \E i \in 1..Len(tree.actions), e \in Events :
       /\ tree.actions[i].onClick = "toggle"
       /\ calls' = Append(calls, Call("updateDevLogging", <<statusDebug.logging>>))
  /\ clicks' = [clicks EXCEPT !.toggle = @ + 1]
  /\ UNCHANGED <<statusDebug, tree, renders, delivered, callsAtProps>>

\* Variant of toggle that also flips the displayed glyph at once.
toggleOptimistic ==
  /\ clicks.toggle + clicks.clear < MaxCalls
  /\ \E i \in 1..Len(tree.actions), e \in Events :
       /\ tree.actions[i].onClick = "toggle"
       /\ calls' = Append(calls, Call("updateDevLogging", <<~statusDebug.logging>>))
       /\ tree' = [tree EXCEPT !.actions[i].children =
                     IF @ = "AvPause" THEN "AvPlay" ELSE "AvPause"]
  /\ clicks' = [clicks EXCEPT !.toggle = @ + 1]
  /\ UNCHANGED <<statusDebug, renders, delivered, callsAtProps>>

\* Variant of toggle that negates its own previous request, when there is one.
toggleFromPrevious ==
  /\ clicks.toggle + clicks.clear < MaxCalls
  /\ \E i \in 1..Len(tree.actions), e \in Events :
       /\ tree.actions[i].onClick = "toggle"
       /\ LET mine == {k \in 1..Len(calls) : calls[k].fn = "updateDevLogging"}
              last == CHOOSE k \in mine : \A j \in mine : j <= k
          IN calls' = Append(calls, Call("updateDevLogging",
                        <<IF mine = {} THEN ~statusDebug.logging
                          ELSE ~calls[last].args[1]>>))
  /\ clicks' = [clicks EXCEPT !.toggle = @ + 1]
  /\ UNCHANGED <<statusDebug, tree, renders, delivered, callsAtProps>>

\* toggle = () => { actions.updateDevLogging(!statusDebug.logging) }
toggle ==
  /\ clicks.toggle + clicks.clear < MaxCalls
  /\ \E i \in 1..Len(tree.actions), e \in Events :
       /\ tree.actions[i].onClick = "toggle"
       /\ calls' = Append(calls, Call("updateDevLogging", <<~statusDebug.logging>>))
  /\ clicks' = [clicks EXCEPT !.toggle = @ + 1]
  /\ UNCHANGED <<statusDebug, tree, renders, delivered, callsAtProps>>

\* Variant of clear that hands the click event on (onClick={ removeDevLogs }).
clearForwardsEvent ==
  /\ clicks.toggle + clicks.clear < MaxCalls
  /\ \E i \in 1..Len(tree.actions), e \in Events :
       /\ tree.actions[i].onClick = "clear"
       /\ calls' = Append(calls, Call("removeDevLogs", <<e>>))
  /\ clicks' = [clicks EXCEPT !.clear = @ + 1]
  /\ UNCHANGED <<statusDebug, tree, renders, delivered, callsAtProps>>

\* Variant of clear that empties the logs array of its props in place.
clearMutatesProps ==
  /\ clicks.toggle + clicks.clear < MaxCalls
  /\ \E i \in 1..Len(tree.actions), e \in Events :
       /\ tree.actions[i].onClick = "clear"
       /\ calls' = Append(calls, Call("removeDevLogs", <<>>))
  /\ statusDebug' = [statusDebug EXCEPT !.logs = <<>>]
  /\ clicks' = [clicks EXCEPT !.clear = @ + 1]
  /\ UNCHANGED <<tree, renders, delivered, callsAtProps>>

\* clear = () => { actions.removeDevLogs() }
clear ==
  /\ clicks.toggle + clicks.clear < MaxCalls
  /\ \E i \in 1..Len(tree.actions), e \in Events :
       /\ tree.actions[i].onClick = "clear"
       /\ calls' = Append(calls, Call("removeDevLogs", <<>>))
  /\ clicks' = [clicks EXCEPT !.clear = @ + 1]
  /\ UNCHANGED <<statusDebug, tree, renders, delivered, callsAtProps>>

Next == receiveProps \/ forceUpdate \/ toggle \/ clear

Spec == Init /\ [][Next]_vars

TypeOK ==
  /\ statusDebug \in StatusDebug
  /\ Len(calls) <= MaxCalls
  /\ renders \in 1..MaxRenders
  /\ delivered \in 1..renders
  /\ callsAtProps \in 0..Len(calls)

\* ----------------------------------------------------------- observations
\* The parts of the last render pass that the properties speak about.
ToggleGlyph == tree.actions[1].children
ClearGlyph == tree.actions[2].children
BlockTexts == [i \in 1..Len(tree.logs) |-> tree.logs[i].children]
LastCall == calls[Len(calls)]
Falsy(x) == x = Null \/ x = Str("")

\* -------------------------------------------------------------- properties
\* C1: every activation of the toggle control makes exactly one call,
\* updateDevLogging, whose single argument is the negation of the logging
\* flag of the snapshot current at the activation.
C1_ToggleCallsSetLoggingOnce ==
  [][clicks'.toggle # clicks.toggle =>
       calls' = Append(calls, [fn |-> "updateDevLogging",
                               args |-> <<~statusDebug.logging>>])]_vars

\* C1 case: a toggle under logging = false asked for true, then, under a
\* snapshot with logging = true, a toggle asked for false.
C1_Witness ==
  /\ clicks.toggle = 2
  /\ Len(calls) = 2
  /\ callsAtProps = 1
  /\ statusDebug.logging
  /\ calls[1] = [fn |-> "updateDevLogging", args |-> <<TRUE>>]
  /\ calls[2] = [fn |-> "updateDevLogging", args |-> <<FALSE>>]

\* C2: every activation of the clear control makes exactly one call,
\* removeDevLogs, with no arguments, also when logs is already empty.
C2_ClearCallsRemoveOnce ==
  [][clicks'.clear # clicks.clear =>
       calls' = Append(calls, [fn |-> "removeDevLogs", args |-> <<>>])]_vars

\* C2 case: clear was activated under a snapshot whose logs is empty.
C2_Witness ==
  /\ clicks.clear >= 1
  /\ statusDebug.logs = <<>>
  /\ callsAtProps < Len(calls)
  /\ LastCall = [fn |-> "removeDevLogs", args |-> <<>>]

\* C3: the rendered list has one block per log line, in the order of logs,
\* and the i-th block holds exactly the i-th line.
C3_LogBlocksMatchLogs ==
  /\ Len(tree.logs) = Len(statusDebug.logs)
  /\ \A i \in 1..Len(statusDebug.logs) :
       /\ tree.logs[i].children = statusDebug.logs[i]
       /\ tree.logs[i].key = i - 1

\* C3 case: two different lines rendered as two blocks in the given order.
C3_Witness ==
  /\ statusDebug.logs = <<"b", "a">>
  /\ Len(tree.logs) = 2
  /\ tree.logs[1].children = "b"
  /\ tree.logs[2].children = "a"

\* C4: the toggle control shows the pause glyph when logging is true and the
\* play glyph when it is false, whatever the rest of the snapshot is.
C4_GlyphFollowsLogging ==
  /\ ToggleGlyph \in {"AvPause", "AvPlay"}
  /\ statusDebug.logging => ToggleGlyph = "AvPause"
  /\ ~statusDebug.logging => ToggleGlyph = "AvPlay"

\* C4 case: a re-render to the play glyph after an earlier activation.
C4_Witness ==
  /\ ~statusDebug.logging
  /\ ToggleGlyph = "AvPlay"
  /\ delivered >= 2
  /\ clicks.toggle >= 1

\* C5: the subheading is "-" when levels is the empty string or null, and
\* the levels string itself otherwise.
C5_SubheaderDashWhenFalsy ==
  /\ Falsy(statusDebug.levels) => tree.subheader = Str("-")
  /\ ~Falsy(statusDebug.levels) => tree.subheader = statusDebug.levels

\* C5 case: the empty levels string rendered as the dash.
C5_Witness ==
  /\ statusDebug.levels = Str("")
  /\ tree.subheader = Str("-")

\* C6: statusDebug changes only in a step that delivers a snapshot; an
\* activation or a render pass on the same props leaves it as it is.
C6_PropsNeverMutated ==
  [][/\ statusDebug' # statusDebug => delivered' = delivered + 1
     /\ (clicks' # clicks \/ (renders' # renders /\ delivered' = delivered))
          => statusDebug' = statusDebug]_vars

\* C6 case: after a toggle, a clear and a re-render the first snapshot is
\* still there, logging on and lines present.
C6_Witness ==
  /\ delivered = 1
  /\ renders > delivered
  /\ clicks.toggle >= 1
  /\ clicks.clear >= 1
  /\ statusDebug.logging
  /\ statusDebug.logs # <<>>

\* C7: a render pass makes no call; a toggle activation appends one
\* updateDevLogging call and a clear activation one removeDevLogs call; so
\* the number of calls equals the number of activations.
C7_CallsOnlyOnActivation ==
  /\ [](Len(calls) = clicks.toggle + clicks.clear)
  /\ [][/\ renders' # renders => calls' = calls
        /\ calls' # calls => clicks' # clicks
        /\ clicks'.toggle # clicks.toggle =>
             /\ Len(calls') = Len(calls) + 1
             /\ SubSeq(calls', 1, Len(calls)) = calls
             /\ calls'[Len(calls')].fn = "updateDevLogging"
        /\ clicks'.clear # clicks.clear =>
             /\ Len(calls') = Len(calls) + 1
             /\ SubSeq(calls', 1, Len(calls)) = calls
             /\ calls'[Len(calls')].fn = "removeDevLogs"]_vars

\* C7 case: three render passes, one toggle and one clear gave two calls.
C7_Witness ==
  /\ renders >= 3
  /\ delivered >= 2
  /\ clicks = [toggle |-> 1, clear |-> 1]
  /\ Len(calls) = 2

\* C8: what is displayed is what the latest snapshot says, and an
\* activation changes nothing of the displayed tree.
C8_DisplayFromLatestSnapshot ==
  /\ [](/\ ToggleGlyph = (IF statusDebug.logging THEN "AvPause" ELSE "AvPlay")
        /\ tree.subheader =
             (IF Falsy(statusDebug.levels) THEN Str("-") ELSE statusDebug.levels)
        /\ BlockTexts = statusDebug.logs)
  /\ [][clicks' # clicks => tree' = tree]_vars

\* C8 case: a later snapshot, then a toggle and a clear, and the panel still
\* shows the pause glyph and both lines.
C8_Witness ==
  /\ delivered >= 2
  /\ Len(calls) - callsAtProps >= 2
  /\ \E k \in (callsAtProps + 1)..Len(calls) : calls[k].fn = "updateDevLogging"
  /\ \E k \in (callsAtProps + 1)..Len(calls) : calls[k].fn = "removeDevLogs"
  /\ statusDebug.logging
  /\ ToggleGlyph = "AvPause"
  /\ Len(tree.logs) = 2

\* C9: the header text and the glyph of the clear control are the same in
\* every render, whatever the snapshot and the earlier activations.
C9_HeaderAndReplayFixed ==
  /\ tree.title = "Node Logs"
  /\ ClearGlyph = "AvReplay"

\* C9 case: an empty panel, after a clear, still has header and replay glyph.
C9_Witness ==
  /\ statusDebug.logs = <<>>
  /\ statusDebug.levels = Null
  /\ clicks.clear >= 1
  /\ delivered >= 2
  /\ tree.title = "Node Logs"
  /\ ClearGlyph = "AvReplay"

\* C10: every updateDevLogging call made since the current snapshot was
\* delivered carries the negation of that snapshot's logging flag, so
\* repeated toggles on one snapshot repeat the same value.
C10_ArgFromCurrentSnapshot ==
  \A k \in (callsAtProps + 1)..Len(calls) :
    calls[k].fn = "updateDevLogging" => calls[k].args = <<~statusDebug.logging>>

\* C10 case: a toggle asked for true; a snapshot with logging = true came;
\* two toggles in a row then both asked for false.
C10_Witness ==
  /\ Len(calls) = 3
  /\ callsAtProps = 1
  /\ statusDebug.logging
  /\ calls[1] = [fn |-> "updateDevLogging", args |-> <<TRUE>>]
  /\ calls[2] = [fn |-> "updateDevLogging", args |-> <<FALSE>>]
  /\ calls[3] = [fn |-> "updateDevLogging", args |-> <<FALSE>>]
====
